---------------------------- MODULE Spec2Model ----------------------------
(***************************************************************************)
(* The live-audio session hook useGeminiLive (src/hooks/useGeminiLive.ts): *)
(* connect(), disconnect() = cleanup(), the session callbacks onopen,      *)
(* onmessage, onclose, onerror, the capture tap's onaudioprocess and the   *)
(* playback sources' onended.                                              *)
(*                                                                         *)
(* Every handler is a function from the hook's state to its next state;    *)
(* an action applies one handler, or one continuation of an async handler  *)
(* after an await, to the current state.  Handlers run to completion on    *)
(* the event loop, so the only interleaving points are the awaits of       *)
(* connect() and onmessage and the pending .then of the session promise.   *)
(*                                                                         *)
(* Each connect() call is an attempt k; the audio contexts, the microphone *)
(* stream, the output gain node, the session and the capture tap it makes  *)
(* are named by k, and a ref holds the attempt whose object it points to   *)
(* (Null = the ref is null).                                               *)
(***************************************************************************)
EXTENDS Integers, FiniteSets, Sequences, TLC

\* ------------------------------------------------------------------ bounds
MaxAttempts == 2      \* connect() calls in a run of Spec
MaxLiveMsgs == 1      \* inbound audio messages in a run of Spec
MaxMsgs     == 2      \* inbound audio messages in a run of SpecPlayback
MaxClock    == 1      \* ticks of the output audio clock in a run of SpecPlayback
MaxDur      == 2      \* longest decoded buffer, in clock ticks
MaxPending  == 1      \* capture blocks waiting on the session promise, in Spec
MaxQueued   == 2      \* the same in a run of SpecCapture
MaxSamples  == 2      \* longest sample array in a run of SpecCodec
MaxLogs     == 7      \* addLog calls in a run of SpecLog
MaxEnables  == 4      \* times the ambient sound is enabled in a run of SpecAmbient

\* --------------------------------------------------------- program constants
NoiseGate == 5        \* 0.005, in thousandths of full scale

Null == 0
Attempts == 1..MaxAttempts
Msgs == 1..MaxMsgs
Durations == 1..MaxDur
Peaks == {0, 2, 5, 10, 20} \* peak |sample| of a capture block, in thousandths
LivePeaks == {0, 2, 5, 10} \* the blocks captured in a run of Spec
Environments == {"apiKey", "aistudio", "none"}   \* the credential the page has

NoError == "null"

Max(a, b) == IF a >= b THEN a ELSE b

VARIABLES
  credentials,    \* "apiKey": process.env.API_KEY is set; "aistudio":
                  \* window.aistudio exists; "none": neither (fixed for a run)
  isConnected, isSpeaking, error,               \* useState
  inputContextRef, outputContextRef, streamRef, \* useRef
  processorRef, sourceRef,
  nextStartTimeRef, scheduledSourcesRef, sessionPromiseRef,
  calls,          \* connect() calls made so far
  pc,             \* attempt -> where its connect() stands
  awaited,        \* attempt -> the context whose resume() it awaits
  inCtx, outCtx,  \* attempt -> "none" | "running" | "closed"
  mic,            \* attempt -> "none" | "live" | "stopped" (its MediaStream)
  gain,           \* attempt -> the context its outputNode belongs to
  sess,           \* attempt -> "none" | "opening" | "open" | "errored" | "closed"
  resolved,       \* attempt -> its sessionPromise has resolved
  pendingSends,   \* attempt -> the blocks of the .then callbacks waiting on its
                  \* sessionPromise, in the order they were registered
  tap,            \* attempt -> its capture tap [st, ctx, mic]
  clock,          \* currentTime of the context outputContextRef points to
  msgs,           \* audio messages handled so far (a message names its source)
  decoding,       \* onmessage calls suspended in await decodeAudioData
  node,           \* message -> "none" | "started" | "stopped" | "ended"
  last,           \* history: the source started last since a flush or teardown
  torn,           \* history: attempts that a cleanup() has run over
  cutOff,         \* history: sessions live at the last disconnect(), until connect()
  cancelled,      \* history: connect() calls suspended at the last disconnect()
  app,            \* the App component: [appState, needsKey, keyCheck, selecting,
                  \* rendered], rendered = the values its effects last ran with
  codec,          \* a sample array on its way through utils/audio: [st, frame,
                  \* rounding, wire, truncated, out]
  logs,           \* the App component's log lines (useState), followed in
                  \* SpecLog only
  added,          \* history: the messages addLog was called with, in order
  ambient         \* the useAmbientSound hook: [enabled, contextRef,
                  \* masterGainRef, oscillatorsRef, ctx, osc, timers, enables,
                  \* failed], followed in SpecAmbient only

vars == << app, codec, logs, added, ambient, credentials, isConnected, isSpeaking, error, inputContextRef, outputContextRef,
           streamRef, processorRef, sourceRef, nextStartTimeRef,
           scheduledSourcesRef, sessionPromiseRef, calls, pc, awaited, inCtx,
           outCtx, mic, gain, sess, resolved, pendingSends, tap, clock, msgs,
           decoding, node, last, torn, cutOff, cancelled >>

\* The current state as one record, the argument of every handler.
State ==
  [ isConnected |-> isConnected, isSpeaking |-> isSpeaking, error |-> error,
    inputContextRef |-> inputContextRef, outputContextRef |-> outputContextRef,
    streamRef |-> streamRef, processorRef |-> processorRef,
    sourceRef |-> sourceRef, nextStartTimeRef |-> nextStartTimeRef,
    scheduledSourcesRef |-> scheduledSourcesRef,
    sessionPromiseRef |-> sessionPromiseRef, calls |-> calls, pc |-> pc,
    awaited |-> awaited, inCtx |-> inCtx, outCtx |-> outCtx, mic |-> mic,
    gain |-> gain, sess |-> sess, resolved |-> resolved,
    pendingSends |-> pendingSends, tap |-> tap, clock |-> clock, msgs |-> msgs,
    decoding |-> decoding, node |-> node, last |-> last, torn |-> torn,
    cutOff |-> cutOff, cancelled |-> cancelled,
    threw |-> FALSE ]    \* set by a handler that ends in an uncaught exception

\* The step that makes t the next state of the hook.
Assign(t) ==
  /\ credentials' = credentials
  /\ codec' = codec
  /\ logs' = logs
  /\ added' = added
  /\ ambient' = ambient
  /\ isConnected' = t.isConnected
  /\ isSpeaking' = t.isSpeaking
  /\ error' = t.error
  /\ inputContextRef' = t.inputContextRef
  /\ outputContextRef' = t.outputContextRef
  /\ streamRef' = t.streamRef
  /\ processorRef' = t.processorRef
  /\ sourceRef' = t.sourceRef
  /\ nextStartTimeRef' = t.nextStartTimeRef
  /\ scheduledSourcesRef' = t.scheduledSourcesRef
  /\ sessionPromiseRef' = t.sessionPromiseRef
  /\ calls' = t.calls
  /\ pc' = t.pc
  /\ awaited' = t.awaited
  /\ inCtx' = t.inCtx
  /\ outCtx' = t.outCtx
  /\ mic' = t.mic
  /\ gain' = t.gain
  /\ sess' = t.sess
  /\ resolved' = t.resolved
  /\ pendingSends' = t.pendingSends
  /\ tap' = t.tap
  /\ clock' = t.clock
  /\ msgs' = t.msgs
  /\ decoding' = t.decoding
  /\ node' = t.node
  /\ last' = t.last
  /\ torn' = t.torn
  /\ cutOff' = t.cutOff
  /\ cancelled' = t.cancelled

\* A step of the hook that the App component has no part in.
Apply(t) == Assign(t) /\ app' = app

NoUnit == [id |-> 0, start |-> 0, dur |-> 0]
NoTap == [st |-> "none", ctx |-> Null, mic |-> Null]

\* The state after the hook's construction: useState/useRef initial values.
InitState ==
  [ isConnected |-> FALSE, isSpeaking |-> FALSE, error |-> NoError,
    inputContextRef |-> Null, outputContextRef |-> Null, streamRef |-> Null,
    processorRef |-> Null, sourceRef |-> Null, nextStartTimeRef |-> 0,
    scheduledSourcesRef |-> {}, sessionPromiseRef |-> Null, calls |-> 0,
    pc |-> [k \in Attempts |-> "idle"],
    awaited |-> [k \in Attempts |-> Null],
    inCtx |-> [k \in Attempts |-> "none"],
    outCtx |-> [k \in Attempts |-> "none"],
    mic |-> [k \in Attempts |-> "none"],
    gain |-> [k \in Attempts |-> Null],
    sess |-> [k \in Attempts |-> "none"],
    resolved |-> [k \in Attempts |-> FALSE],
    pendingSends |-> [k \in Attempts |-> << >>],
    tap |-> [k \in Attempts |-> NoTap],
    clock |-> 0, msgs |-> 0, decoding |-> {},
    node |-> [u \in Msgs |-> "none"],
    last |-> NoUnit, torn |-> {}, cutOff |-> {}, cancelled |-> {},
    threw |-> FALSE ]

\* ------------------------------------------------------- error messages
\* The texts the handlers classify by substring.  A text is modelled by which
\* of the substrings the code looks for it contains: Fragments(m) those found
\* by m.includes(f), LowerFragments(m) those found by m.toLowerCase().includes(f).
Messages ==
  { "Permission denied", "Requested device not found",
    "Could not start audio source", "AudioCtx is not a constructor",
    "Cannot read properties of null", "Cannot resume a closed AudioContext",
    "Network error", "Got status 401", "Got status 403",
    "Requested entity was not found.", "Quota exceeded", "quota: Network error",
    "Blocked by SAFETY filter", "network error", "Connection reset",
    "Network error: requested entity was not found",
    "Quota exceeded: requested entity was not found", "Safety quota exceeded",
    "undefined", "[object Event]", "[object Object]", "" }

Fragments(m) ==
  CASE m = "Permission denied" -> {"Permission denied"}
    [] m = "Requested device not found" -> {"device not found"}
    [] m = "Network error" -> {"Network error"}
    [] m = "Got status 401" -> {"401"}
    [] m = "Got status 403" -> {"403"}
    [] m = "quota: Network error" -> {"Network error"}
    [] m = "Network error: requested entity was not found" -> {"Network error"}
    [] OTHER -> {}

LowerFragments(m) ==
  CASE m = "Requested entity was not found." -> {"requested entity was not found"}
    [] m = "Quota exceeded" -> {"quota"}
    [] m = "quota: Network error" -> {"quota"}
    [] m = "Blocked by SAFETY filter" -> {"safety"}
    [] m = "Network error: requested entity was not found"
         -> {"requested entity was not found"}
    [] m = "Quota exceeded: requested entity was not found"
         -> {"requested entity was not found", "quota"}
    [] m = "Safety quota exceeded" -> {"quota", "safety"}
    [] OTHER -> {}

Includes(m, f) == f \in Fragments(m)
LowerIncludes(m, f) == f \in LowerFragments(m)

\* ------------------------------------------------------------ utils/audio
\* createPcmBlob, decodeBase64 and decodeAudioData, which the hook imports.
\* A sample is an integer number of half quantization steps: Unit is 1.0, one
\* step is 2.  A byte is 0..255; a character of the transport encoding is its
\* base64 digit 0..63, Pad is '='.
Unit == 65536
Int16Min == 0 - 32768
Int16Max == 32767
Pad == 64
Samples == {0 - Unit, 1 - Unit, 0 - 3, 0, 1, Unit - 1, Unit}
Roundings == {"truncate", "nearest"}
Frames == UNION {[1..n -> Samples] : n \in 0..MaxSamples}

NoCodec ==
  [ st |-> "off", frame |-> << >>, rounding |-> "truncate", wire |-> << >>,
    truncated |-> FALSE, out |-> << >> ]

\* sample * 32768 as an integer, by the rounding in use.
Scale(f, rounding) ==
  IF rounding = "truncate"
  THEN (IF f >= 0 THEN f \div 2 ELSE 0 - ((0 - f) \div 2))
  ELSE (IF f >= 0 THEN (f + 1) \div 2 ELSE 0 - ((1 - f) \div 2))

\* The scaled sample stored in 16 bits without a clamp.
toInt16Wrapping(f, rounding) ==
  ((Scale(f, rounding) + 32768) % 65536) - 32768

\* The scaled sample clamped to [-32768, 32767].
toInt16(f, rounding) ==
  LET v == Scale(f, rounding)
  IN IF v > Int16Max THEN Int16Max ELSE IF v < Int16Min THEN Int16Min ELSE v

\* Two bytes, little-endian, two's complement.
packLE(v) ==
  LET u == IF v < 0 THEN v + 65536 ELSE v
  IN << u % 256, u \div 256 >>

unpackLE(lo, hi) ==
  LET u == lo + 256 * hi
  IN IF u >= 32768 THEN u - 65536 ELSE u

RECURSIVE pcmBytes(_, _)
pcmBytes(S, rounding) ==
  IF S = << >> THEN << >>
  ELSE packLE(toInt16(Head(S), rounding)) \o pcmBytes(Tail(S), rounding)

RECURSIVE encodeBase64(_)
encodeBase64(b) ==
  IF Len(b) = 0 THEN << >>
  ELSE IF Len(b) = 1
  THEN << b[1] \div 4, (b[1] % 4) * 16, Pad, Pad >>
  ELSE IF Len(b) = 2
  THEN << b[1] \div 4, (b[1] % 4) * 16 + b[2] \div 16, (b[2] % 16) * 4, Pad >>
  ELSE << b[1] \div 4, (b[1] % 4) * 16 + b[2] \div 16,
          (b[2] % 16) * 4 + b[3] \div 64, b[3] % 64 >>
         \o encodeBase64(SubSeq(b, 4, Len(b)))

RECURSIVE decodeBase64(_)
decodeBase64(c) ==
  IF Len(c) < 4 THEN << >>
  ELSE LET b1 == c[1] * 4 + c[2] \div 16
           b2 == (c[2] % 16) * 16 + c[3] \div 4
           b3 == (c[3] % 4) * 64 + c[4]
       IN IF c[3] = Pad THEN << b1 >>
          ELSE IF c[4] = Pad THEN << b1, (c[2] % 16) * 16 + c[3] \div 4 >>
          ELSE << b1, b2, b3 >> \o decodeBase64(SubSeq(c, 5, Len(c)))

createPcmBlob(S, rounding) == encodeBase64(pcmBytes(S, rounding))

\* A decoder that takes a trailing single byte for a sample.
decodeAudioDataRoundingUp(b) ==
  [i \in 1..((Len(b) + 1) \div 2) |->
     2 * unpackLE(b[2 * i - 1], IF 2 * i <= Len(b) THEN b[2 * i] ELSE 0)]

\* The samples of the whole 16-bit pairs of b; a trailing single byte is dropped.
decodeAudioData(b) ==
  [i \in 1..(Len(b) \div 2) |-> 2 * unpackLE(b[2 * i - 1], b[2 * i])]

\* ------------------------------------------------------------ cleanup()
\* forEach(s => s.stop()) and clear() of the scheduled set.
stopScheduled(s) ==
  [s EXCEPT
     !.node = [u \in Msgs |->
                 IF u \in s.scheduledSourcesRef /\ s.node[u] = "started"
                 THEN "stopped"
                 ELSE s.node[u]],
     !.scheduledSourcesRef = {}]

releaseProcessor(s) ==
  IF s.processorRef # Null
  THEN [s EXCEPT !.tap[s.processorRef].st = "disconnected", !.processorRef = Null]
  ELSE s

releaseSource(s) ==
  IF s.sourceRef # Null THEN [s EXCEPT !.sourceRef = Null] ELSE s

releaseStream(s) ==
  IF s.streamRef # Null
  THEN [s EXCEPT !.mic[s.streamRef] = "stopped", !.streamRef = Null]
  ELSE s

\* inputContextRef.current.close() without the null check: a TypeError ends
\* the handler when the ref is null.
closeInputUnguarded(s) ==
  IF s.inputContextRef # Null
  THEN [s EXCEPT !.inCtx[s.inputContextRef] = "closed", !.inputContextRef = Null]
  ELSE [s EXCEPT !.threw = TRUE]

closeInput(s) ==
  IF s.inputContextRef # Null
  THEN [s EXCEPT !.inCtx[s.inputContextRef] = "closed", !.inputContextRef = Null]
  ELSE s

closeOutput(s) ==
  IF s.outputContextRef # Null
  THEN [s EXCEPT !.outCtx[s.outputContextRef] = "closed", !.outputContextRef = Null]
  ELSE s

\* cleanup() with a reset of the error at its end.
cleanupClearingError(s) ==
  LET s1 == releaseProcessor(s)
      s2 == releaseSource(s1)
      s3 == releaseStream(s2)
      s4 == stopScheduled(s3)
      s5 == closeInput(s4)
      s6 == closeOutput(s5)
  IN [s6 EXCEPT !.isConnected = FALSE, !.isSpeaking = FALSE,
                !.error = NoError,
                !.last = NoUnit,
                !.torn = s.torn \cup {k \in Attempts : s.pc[k] # "idle"}]

cleanup(s) ==
  LET s1 == releaseProcessor(s)
      s2 == releaseSource(s1)
      s3 == releaseStream(s2)
      s4 == stopScheduled(s3)
      s5 == closeInput(s4)
      s6 == closeOutput(s5)
  IN [s6 EXCEPT !.isConnected = FALSE, !.isSpeaking = FALSE,
                !.last = NoUnit,
                !.torn = s.torn \cup {k \in Attempts : s.pc[k] # "idle"}]

\* ------------------------------------------------------------ connect()
\* The catch block of connect(): classify err.message, then cleanup().
connectCatchCode(rawMsg) ==
  IF Includes(rawMsg, "Permission denied") \/ Includes(rawMsg, "device not found")
  THEN "ERR_HARDWARE_ACCESS"
  ELSE "ERR_NETWORK_OR_AUTH"

connectCatch(s, k, rawMsg) ==
  cleanup([s EXCEPT !.error = connectCatchCode(rawMsg), !.pc[k] = "returned"])

\* connect() with the credential check made after the audio contexts exist.
connectStartLateCheck(s, k, hasKey, hasStudio, audioOk) ==
  LET s0 == [s EXCEPT !.error = NoError, !.calls = k, !.cutOff = {},
                      !.cancelled = {}]
      s1 == [s0 EXCEPT !.inCtx[k] = "running", !.inputContextRef = k,
                       !.outCtx[k] = "running", !.outputContextRef = k,
                       !.clock = 0]
  IN IF ~audioOk
     THEN connectCatch(s0, k, "AudioCtx is not a constructor")
     ELSE IF ~hasKey /\ ~hasStudio
     THEN [s1 EXCEPT !.error = "ERR_AUTH_MISSING", !.pc[k] = "returned"]
     ELSE [s1 EXCEPT !.awaited[k] = k, !.pc[k] = "resumeInput"]

\* connect() up to its first await.  hasKey: process.env.API_KEY is set;
\* hasStudio: window.aistudio exists; audioOk: an AudioContext constructor exists.
connectStart(s, k, hasKey, hasStudio, audioOk) ==
  LET s0 == [s EXCEPT !.error = NoError, !.calls = k, !.cutOff = {},
                      !.cancelled = {}]
  IN IF ~hasKey /\ ~hasStudio
     THEN [s0 EXCEPT !.error = "ERR_AUTH_MISSING", !.pc[k] = "returned"]
     ELSE IF ~audioOk
     THEN connectCatch(s0, k, "AudioCtx is not a constructor")
     ELSE [s0 EXCEPT !.inCtx[k] = "running", !.inputContextRef = k,
                     !.outCtx[k] = "running", !.outputContextRef = k,
                     !.clock = 0,
                     !.awaited[k] = k, !.pc[k] = "resumeInput"]

\* After await inputContextRef.current.resume(): ok = the promise resolved.
connectAfterInputResume(s, k, ok) ==
  IF ~ok THEN connectCatch(s, k, "Cannot resume a closed AudioContext")
  ELSE IF s.outputContextRef = Null
  THEN connectCatch(s, k, "Cannot read properties of null")
  ELSE [s EXCEPT !.awaited[k] = s.outputContextRef, !.pc[k] = "resumeOutput"]

\* After await outputContextRef.current.resume(): createGain, getUserMedia.
connectAfterOutputResume(s, k, ok) ==
  IF ~ok THEN connectCatch(s, k, "Cannot resume a closed AudioContext")
  ELSE IF s.outputContextRef = Null
  THEN connectCatch(s, k, "Cannot read properties of null")
  ELSE [s EXCEPT !.gain[k] = s.outputContextRef, !.awaited[k] = Null,
                 !.pc[k] = "getUserMedia"]

\* After await getUserMedia: res = "ok" or the rejection's message.
GumResults == {"ok", "Permission denied", "Could not start audio source"}

connectAfterGetUserMedia(s, k, res) ==
  IF res # "ok" THEN connectCatch(s, k, res)
  ELSE [s EXCEPT !.mic[k] = "live", !.streamRef = k,
                 !.sess[k] = "opening", !.sessionPromiseRef = k,
                 !.pc[k] = "returned"]

\* ------------------------------------------------------ session callbacks
\* onopen of attempt k's session.
onopen(s, k) ==
  LET s1 == [s EXCEPT !.sess[k] = "open", !.isConnected = TRUE]
  IN IF s1.inputContextRef = Null \/ s1.streamRef = Null THEN s1
     ELSE [s1 EXCEPT !.sourceRef = k, !.processorRef = k,
                     !.tap[k] = [st |-> "active", ctx |-> s1.inputContextRef,
                                 mic |-> s1.streamRef]]

\* The gate of onaudioprocess with >= in place of >.
onaudioprocessInclusive(s, k, peak) ==
  IF peak >= NoiseGate
  THEN [s EXCEPT !.pendingSends[k] = Append(@, peak)]
  ELSE s

\* processor.onaudioprocess of attempt k's tap, on a block of the given peak:
\* above the gate the block (named by its peak) is encoded and a callback
\* carrying it is registered with sessionPromise.then.
onaudioprocess(s, k, peak) ==
  IF peak > NoiseGate
  THEN [s EXCEPT !.pendingSends[k] = Append(@, peak)]
  ELSE s

\* The .then callbacks run last-registered first.
sendRealtimeInputNewestFirst(s, k) ==
  [s EXCEPT !.pendingSends[k] = SubSeq(@, 1, Len(@) - 1)]

\* The .then callbacks of a promise run in the order they were registered:
\* the first one calls session.sendRealtimeInput({media}) with its block.
sendRealtimeInput(s, k) == [s EXCEPT !.pendingSends[k] = Tail(@)]

\* The interrupted branch without the reset of the cursor.
flushKeepCursor(s) ==
  [stopScheduled(s) EXCEPT !.isSpeaking = FALSE, !.last = NoUnit]

\* The interrupted branch of onmessage.
flush(s) ==
  [stopScheduled(s) EXCEPT !.nextStartTimeRef = 0, !.isSpeaking = FALSE,
                           !.last = NoUnit]

\* onmessage with the cursor set to the clock instead of raised to it.
onmessageCursorFromClock(s, k, m) ==
  IF m.audio /\ s.outputContextRef # Null
  THEN [s EXCEPT !.isSpeaking = TRUE,
                 !.nextStartTimeRef = s.clock,
                 !.msgs = @ + 1,
                 !.decoding = @ \cup {[id |-> s.msgs + 1, sess |-> k,
                                       ctx |-> s.outputContextRef,
                                       dur |-> m.dur,
                                       interrupted |-> m.interrupted]}]
  ELSE IF m.interrupted THEN flush(s) ELSE s

\* onmessage of session k up to its await.  m = [audio, dur, interrupted].
onmessage(s, k, m) ==
  IF m.audio /\ s.outputContextRef # Null
  THEN [s EXCEPT !.isSpeaking = TRUE,
                 !.nextStartTimeRef = Max(s.nextStartTimeRef, s.clock),
                 !.msgs = @ + 1,
                 !.decoding = @ \cup {[id |-> s.msgs + 1, sess |-> k,
                                       ctx |-> s.outputContextRef,
                                       dur |-> m.dur,
                                       interrupted |-> m.interrupted]}]
  ELSE IF m.interrupted THEN flush(s) ELSE s

\* The cursor is advanced from the clock, not from the start time.
scheduleFromClock(s, d) ==
  [s EXCEPT !.node[d.id] = "started",
            !.scheduledSourcesRef = @ \cup {d.id},
            !.last = [id |-> d.id, start |-> s.nextStartTimeRef, dur |-> d.dur],
            !.nextStartTimeRef = s.clock + d.dur]

\* The source is started at the cursor but the cursor is not advanced.
scheduleNoAdvance(s, d) ==
  [s EXCEPT !.node[d.id] = "started",
            !.scheduledSourcesRef = @ \cup {d.id},
            !.last = [id |-> d.id, start |-> s.nextStartTimeRef, dur |-> d.dur]]

\* The source of message d is started at the cursor and joins the set.
schedule(s, d) ==
  [s EXCEPT !.node[d.id] = "started",
            !.scheduledSourcesRef = @ \cup {d.id},
            !.last = [id |-> d.id, start |-> s.nextStartTimeRef, dur |-> d.dur],
            !.nextStartTimeRef = @ + d.dur]

\* onmessage after the await with the interrupted flag handled ahead of the
\* audio: the flush runs first and the new source is started after it.
onmessageAfterDecodeFlushFirst(s, d) ==
  LET s1 == [s EXCEPT !.decoding = @ \ {d}]
  IN IF s.gain[d.sess] # d.ctx THEN [s1 EXCEPT !.threw = TRUE]
     ELSE IF d.interrupted THEN schedule(flush(s1), d)
     ELSE schedule(s1, d)

\* onmessage after await decodeAudioData, for the suspended call d.
\* source.connect(outputNode) throws when the two nodes belong to different
\* contexts, and the handler ends there.
onmessageAfterDecode(s, d) ==
  LET s1 == [s EXCEPT !.decoding = @ \ {d}]
  IN IF s.gain[d.sess] # d.ctx THEN [s1 EXCEPT !.threw = TRUE]
     ELSE IF d.interrupted THEN flush(schedule(s1, d))
     ELSE schedule(s1, d)

\* onended without the test of the set's size.
onendedAlwaysSilent(s, u) ==
  [s EXCEPT !.node[u] = "ended", !.scheduledSourcesRef = @ \ {u},
            !.isSpeaking = FALSE]

\* source.onended of the source of message u.
onended(s, u) ==
  LET s1 == [s EXCEPT !.node[u] = "ended",
                      !.scheduledSourcesRef = @ \ {u}]
  IN IF s1.scheduledSourcesRef = {} THEN [s1 EXCEPT !.isSpeaking = FALSE]
     ELSE s1

onclose(s, k) == cleanup([s EXCEPT !.sess[k] = "closed"])

\* The values onerror can be called with: message is err?.message ("" when
\* err has none or an empty one), text is String(err).
ErrorValues ==
  {[message |-> m, text |-> "[object Object]"] : m \in Messages \ {""}}
    \cup {[message |-> "", text |-> t] :
            t \in {"undefined", "[object Event]", "Quota exceeded", ""}}

\* err?.message || String(err) || ""
rawMessage(err) ==
  IF err.message # "" THEN err.message
  ELSE IF err.text # "" THEN err.text
  ELSE ""

\* The classification of onerror with the quota test ahead of the not-found one.
onerrorCodeQuotaFirst(rawMsg) ==
  IF Includes(rawMsg, "Network error") \/ Includes(rawMsg, "401")
     \/ Includes(rawMsg, "403")
  THEN "ERR_NETWORK_OR_AUTH"
  ELSE IF LowerIncludes(rawMsg, "quota") THEN "ERR_QUOTA_EXCEEDED"
  ELSE IF LowerIncludes(rawMsg, "requested entity was not found")
  THEN "ERR_NOT_FOUND"
  ELSE IF LowerIncludes(rawMsg, "safety") THEN "ERR_SAFETY_FILTER"
  ELSE "ERR_SESSION_DROP"

onerrorCode(rawMsg) ==
  IF Includes(rawMsg, "Network error") \/ Includes(rawMsg, "401")
     \/ Includes(rawMsg, "403")
  THEN "ERR_NETWORK_OR_AUTH"
  ELSE IF LowerIncludes(rawMsg, "requested entity was not found")
  THEN "ERR_NOT_FOUND"
  ELSE IF LowerIncludes(rawMsg, "quota") THEN "ERR_QUOTA_EXCEEDED"
  ELSE IF LowerIncludes(rawMsg, "safety") THEN "ERR_SAFETY_FILTER"
  ELSE "ERR_SESSION_DROP"

onerror(s, k, err) ==
  cleanup([s EXCEPT !.sess[k] = "errored",
                    !.error = onerrorCode(rawMessage(err))])

\* disconnect: cleanup, called by the user.
Suspended == {"resumeInput", "resumeOutput", "getUserMedia"}

disconnect(s) ==
  [cleanup(s) EXCEPT
     !.cutOff = {k \in Attempts : s.sess[k] \in {"opening", "open"}},
     !.cancelled = {k \in Attempts : s.pc[k] \in Suspended}]

\* ------------------------------------------------------ useAmbientSound
\* Each run of the effect with enabled = true is an enable e; the context
\* and the oscillators it makes are named by e, and a ref holds the enable
\* whose objects it points to (Null = null, or the empty array).
Enables == 1..MaxEnables

\* The hook as mounted with enabled = false: the effect has run and found
\* contextRef null.
InitAmbient ==
  [ enabled |-> FALSE, contextRef |-> Null, masterGainRef |-> Null,
    oscillatorsRef |-> Null,
    ctx |-> [e \in Enables |-> "none"],    \* "none" | "running" | "closed"
    osc |-> [e \in Enables |-> "none"],    \* "none" | "running" | "stopped"
    timers |-> 0,                          \* pending setTimeout callbacks
    enables |-> 0,                         \* enables so far
    failed |-> FALSE ]                     \* the latest enable threw

\* The function the effect returns, run before the effect runs again.
ambientCleanup(a) ==
  IF a.contextRef # Null /\ a.ctx[a.contextRef] # "closed"
  THEN [a EXCEPT !.ctx[a.contextRef] = "closed"]
  ELSE a

\* The effect body for the new value of enabled; ok = an AudioContext could
\* be constructed (otherwise the exception is caught at once).
ambientEffect(a, enabled, ok) ==
  LET e == a.enables + 1
  IN IF enabled
     THEN IF ok
          THEN [a EXCEPT !.enabled = TRUE, !.enables = e, !.failed = FALSE,
                         !.ctx[e] = "running", !.contextRef = e,
                         !.masterGainRef = e,
                         !.osc[e] = "running", !.oscillatorsRef = e]
          ELSE [a EXCEPT !.enabled = TRUE, !.enables = e, !.failed = TRUE]
     ELSE IF a.contextRef # Null /\ a.masterGainRef # Null
          THEN [a EXCEPT !.enabled = FALSE, !.timers = @ + 1]
          ELSE [a EXCEPT !.enabled = FALSE]

\* The setTimeout callback of the fade-out.
ambientTimeout(a) ==
  LET a1 == IF a.oscillatorsRef # Null /\ a.osc[a.oscillatorsRef] = "running"
            THEN [a EXCEPT !.osc[a.oscillatorsRef] = "stopped"]
            ELSE a
      a2 == IF a1.contextRef # Null /\ a1.ctx[a1.contextRef] # "closed"
            THEN [a1 EXCEPT !.ctx[a1.contextRef] = "closed"]
            ELSE a1
  IN [a2 EXCEPT !.contextRef = Null, !.masterGainRef = Null,
                !.oscillatorsRef = Null, !.timers = @ - 1]

\* The App component as mounted: its effects have run once and changed nothing.
InitApp ==
  [ appState |-> "IDLE", needsKey |-> FALSE, keyCheck |-> FALSE,
    selecting |-> FALSE,
    rendered |-> [isConnected |-> FALSE, appState |-> "IDLE", error |-> NoError] ]

InitHook ==
  /\ app = InitApp
  /\ logs = << >>
  /\ added = << >>
  /\ ambient = InitAmbient
  /\ isConnected = InitState.isConnected
  /\ isSpeaking = InitState.isSpeaking
  /\ error = InitState.error
  /\ inputContextRef = InitState.inputContextRef
  /\ outputContextRef = InitState.outputContextRef
  /\ streamRef = InitState.streamRef
  /\ processorRef = InitState.processorRef
  /\ sourceRef = InitState.sourceRef
  /\ nextStartTimeRef = InitState.nextStartTimeRef
  /\ scheduledSourcesRef = InitState.scheduledSourcesRef
  /\ sessionPromiseRef = InitState.sessionPromiseRef
  /\ calls = InitState.calls
  /\ pc = InitState.pc
  /\ awaited = InitState.awaited
  /\ inCtx = InitState.inCtx
  /\ outCtx = InitState.outCtx
  /\ mic = InitState.mic
  /\ gain = InitState.gain
  /\ sess = InitState.sess
  /\ resolved = InitState.resolved
  /\ pendingSends = InitState.pendingSends
  /\ tap = InitState.tap
  /\ clock = InitState.clock
  /\ msgs = InitState.msgs
  /\ decoding = InitState.decoding
  /\ node = InitState.node
  /\ last = InitState.last
  /\ torn = InitState.torn
  /\ cutOff = InitState.cutOff
  /\ cancelled = InitState.cancelled

InitIn(envs) ==
  /\ credentials \in envs
  /\ codec = NoCodec
  /\ InitHook

\* A page with an API key or with none (a page inside AI Studio takes the
\* branches of one with a key), and every kind of page.
Init == InitIn({"apiKey", "none"})
InitAny == InitIn(Environments)

\* ---------------------------------------------------------------- actions
\* A .then callback of a resolved promise runs before any other event.
Drained == \A k \in Attempts : ~(resolved[k] /\ pendingSends[k] # << >>)

ErrorEvents ==
  { [message |-> "Network error", text |-> "[object Object]"],
    [message |-> "Quota exceeded", text |-> "[object Object]"],
    [message |-> "", text |-> "[object Event]"] }

Connect(maxAttempts) ==
  /\ Drained
  /\ calls < maxAttempts
  /\ \E audioOk \in BOOLEAN :
       Apply(connectStart(State, calls + 1, credentials = "apiKey",
                          credentials = "aistudio", audioOk))

ResumeInputDone(k) ==
  /\ Drained
  /\ pc[k] = "resumeInput"
  /\ \E ok \in BOOLEAN :
       /\ (~ok => inCtx[awaited[k]] = "closed")
       /\ Apply(connectAfterInputResume(State, k, ok))

ResumeOutputDone(k) ==
  /\ Drained
  /\ pc[k] = "resumeOutput"
  /\ \E ok \in BOOLEAN :
       /\ (~ok => outCtx[awaited[k]] = "closed")
       /\ Apply(connectAfterOutputResume(State, k, ok))

GetUserMediaDone(k) ==
  /\ Drained
  /\ pc[k] = "getUserMedia"
  /\ \E res \in GumResults : Apply(connectAfterGetUserMedia(State, k, res))

Disconnect ==
  /\ Drained
  /\ Apply(disconnect(State))

OnOpen(k) ==
  /\ Drained
  /\ sess[k] = "opening"
  /\ Apply(onopen(State, k))

SessionResolve(k) ==
  /\ Drained
  /\ sess[k] = "open"
  /\ ~resolved[k]
  /\ Apply([State EXCEPT !.resolved[k] = TRUE])

OnAudioProcess(k, maxPending, peaks) ==
  /\ Drained
  /\ tap[k].st = "active"
  /\ inCtx[tap[k].ctx] = "running"
  /\ Len(pendingSends[k]) < maxPending
  /\ \E peak \in peaks :
       /\ (mic[tap[k].mic] # "live" => peak = 0)
       /\ Apply(onaudioprocess(State, k, peak))

Send(k) ==
  /\ resolved[k]
  /\ pendingSends[k] # << >>
  /\ Apply(sendRealtimeInput(State, k))

OnMessage(k, maxMsgs, durs) ==
  /\ Drained
  /\ sess[k] = "open"
  /\ \E audio \in BOOLEAN, dur \in durs, interrupted \in BOOLEAN :
       /\ (audio => msgs < maxMsgs)
       /\ (~audio => dur = 1)
       /\ Apply(onmessage(State, k,
                [audio |-> audio, dur |-> dur, interrupted |-> interrupted]))

DecodeDone ==
  /\ Drained
  /\ \E d \in decoding : Apply(onmessageAfterDecode(State, d))

OnEnded(u) ==
  /\ Drained
  /\ node[u] \in {"started", "stopped"}
  /\ Apply(onended(State, u))

OnClose(k) ==
  /\ Drained
  /\ sess[k] \in {"opening", "open", "errored"}
  /\ Apply(onclose(State, k))

OnError(k) ==
  /\ Drained
  /\ sess[k] \in {"opening", "open"}
  /\ \E err \in ErrorEvents : Apply(onerror(State, k, err))

Tick ==
  /\ Drained
  /\ outputContextRef # Null
  /\ clock < MaxClock
  /\ Apply([State EXCEPT !.clock = @ + 1])

\* ------------------------------------------------------ the App component
\* The deps of the two effects as they are now.
Deps == [isConnected |-> isConnected, appState |-> app.appState, error |-> error]

\* No effect is waiting to run.
Settled == app.rendered = Deps

KeyErrors ==
  {"ERR_AUTH_MISSING", "ERR_KEY_INVALID", "ERR_NOT_FOUND", "ERR_NETWORK_OR_AUTH"}

\* useEffect(..., [isConnected, appState]).
connectedEffect(a) ==
  IF a.rendered.isConnected = isConnected /\ a.rendered.appState = app.appState
  THEN a
  ELSE IF isConnected THEN [a EXCEPT !.appState = "LISTENING", !.needsKey = FALSE]
  ELSE IF app.appState = "LISTENING" THEN [a EXCEPT !.appState = "IDLE"]
  ELSE a

\* useEffect(..., [error]).
errorEffect(a) ==
  IF a.rendered.error = error \/ error = NoError THEN a
  ELSE [a EXCEPT !.appState = "ERROR",
                 !.needsKey = IF error \in KeyErrors /\ credentials = "aistudio"
                              THEN TRUE ELSE @]

\* One commit: the effects whose deps changed run in the order they are
\* declared, on the values that were rendered.
RunEffects ==
  /\ ~Settled
  /\ app' = [errorEffect(connectedEffect(app)) EXCEPT !.rendered = Deps]
  /\ Assign(State)

\* handleInitialize up to its await (taken inside AI Studio only).
handleInitialize ==
  /\ Settled /\ Drained
  /\ app.appState = "IDLE"
  /\ app' = [app EXCEPT !.appState = "REQUESTING_PERMISSION",
                        !.keyCheck = (credentials = "aistudio")]
  /\ Assign(State)

\* handleInitialize after await window.aistudio.hasSelectedApiKey().
KeyCheckDone ==
  /\ Settled /\ Drained
  /\ app.keyCheck
  /\ \E hasKey \in BOOLEAN :
       app' = [app EXCEPT !.keyCheck = FALSE,
                          !.needsKey = IF hasKey THEN @ ELSE TRUE]
  /\ Assign(State)

\* The Authorize button: handlePermissionGranted.
handlePermissionGranted ==
  /\ Settled /\ Drained
  /\ app.appState = "REQUESTING_PERMISSION" /\ ~app.needsKey
  /\ calls < MaxAttempts
  /\ app' = app
  /\ \E audioOk \in BOOLEAN :
       Assign(connectStart(State, calls + 1, credentials = "apiKey",
                           credentials = "aistudio", audioOk))

\* The Select API Key button: handleSelectKey up to its await.
handleSelectKey ==
  /\ Settled /\ Drained
  /\ app.needsKey /\ credentials = "aistudio" /\ ~app.selecting
  /\ app' = [app EXCEPT !.selecting = TRUE]
  /\ Assign(State)

\* handleSelectKey after await window.aistudio.openSelectKey().
SelectKeyDone ==
  /\ Settled /\ Drained
  /\ app.selecting
  /\ \/ /\ calls < MaxAttempts
        /\ app' = [app EXCEPT !.selecting = FALSE, !.needsKey = FALSE]
        /\ \E audioOk \in BOOLEAN :
             Assign(connectStart(State, calls + 1, FALSE, TRUE, audioOk))
     \/ /\ app' = [app EXCEPT !.selecting = FALSE]
        /\ Assign(State)

\* The Abort button.
Abort ==
  /\ Settled /\ Drained
  /\ app.appState = "REQUESTING_PERMISSION" /\ ~app.needsKey
  /\ app' = [app EXCEPT !.appState = "IDLE"]
  /\ Assign(State)

\* The Sever Link button: handleShutdown.
handleShutdown ==
  /\ Settled /\ Drained
  /\ app.appState = "LISTENING"
  /\ app' = [app EXCEPT !.appState = "IDLE", !.needsKey = FALSE]
  /\ Assign(disconnect(State))

\* The System Recovery button.
SystemRecovery ==
  /\ Settled /\ Drained
  /\ app.appState = "ERROR" /\ ~app.needsKey /\ error # NoError
  /\ app' = [app EXCEPT !.appState = "IDLE"]
  /\ Assign(disconnect(State))

\* ---------------------------------------------------- utils/audio in use
hookVars ==
  << credentials, isConnected, isSpeaking, error, inputContextRef,
     outputContextRef, streamRef, processorRef, sourceRef, nextStartTimeRef,
     scheduledSourcesRef, sessionPromiseRef, calls, pc, awaited, inCtx, outCtx,
     mic, gain, sess, resolved, pendingSends, tap, clock, msgs, decoding, node,
     last, torn, cutOff, cancelled, app, logs, added, ambient >>

\* A captured frame is encoded for the wire.
Encode ==
  /\ codec.st = "frame"
  /\ codec' = [codec EXCEPT !.st = "encoded",
                            !.wire = createPcmBlob(codec.frame, codec.rounding)]
  /\ UNCHANGED hookVars

\* The payload loses its last byte on the way (and is still valid base64).
Truncate ==
  /\ codec.st = "encoded" /\ ~codec.truncated /\ msgs = 0
  /\ codec.frame # << >>
  /\ LET b == decodeBase64(codec.wire)
     IN codec' = [codec EXCEPT !.truncated = TRUE,
                               !.wire = encodeBase64(SubSeq(b, 1, Len(b) - 1))]
  /\ UNCHANGED hookVars

\* The payload is decoded: decodeBase64, then decodeAudioData.
Decode ==
  /\ codec.st = "encoded"
  /\ codec' = [codec EXCEPT !.st = "decoded",
                            !.out = decodeAudioData(decodeBase64(codec.wire))]
  /\ UNCHANGED hookVars

\* The payload arrives as the audio of an inbound message; the buffer's
\* duration is its number of samples.
OnMessageWire(k) ==
  /\ Drained
  /\ sess[k] = "open"
  /\ codec.st = "encoded"
  /\ msgs < MaxLiveMsgs
  /\ Apply(onmessage(State, k,
            [audio |-> TRUE, interrupted |-> FALSE,
             dur |-> Len(decodeAudioData(decodeBase64(codec.wire)))]))

\* Session lifecycle: several connect() calls, brief audio, the clock at rest.
Next ==
  \/ Connect(MaxAttempts)
  \/ \E k \in Attempts : ResumeInputDone(k)
  \/ \E k \in Attempts : ResumeOutputDone(k)
  \/ \E k \in Attempts : GetUserMediaDone(k)
  \/ Disconnect
  \/ \E k \in Attempts : OnOpen(k)
  \/ \E k \in Attempts : SessionResolve(k)
  \/ \E k \in Attempts : OnAudioProcess(k, MaxPending, LivePeaks)
  \/ \E k \in Attempts : Send(k)
  \/ \E k \in Attempts : OnMessage(k, MaxLiveMsgs, {1})
  \/ DecodeDone
  \/ \E u \in Msgs : OnEnded(u)
  \/ \E k \in Attempts : OnClose(k)
  \/ \E k \in Attempts : OnError(k)

Spec == Init /\ [][Next]_vars

\* Playback: one connect() call, audio of every duration, the clock running,
\* the microphone silent (no capture block passes the gate).
First == {1}

NextPlayback ==
  \/ Connect(1)
  \/ \E k \in First : ResumeInputDone(k)
  \/ \E k \in First : ResumeOutputDone(k)
  \/ \E k \in First : GetUserMediaDone(k)
  \/ Disconnect
  \/ \E k \in First : OnOpen(k)
  \/ \E k \in First : OnMessage(k, MaxMsgs, Durations)
  \/ DecodeDone
  \/ \E u \in Msgs : OnEnded(u)
  \/ \E k \in First : OnClose(k)
  \/ \E k \in First : OnError(k)
  \/ Tick

SpecPlayback == Init /\ [][NextPlayback]_vars

\* Capture: one connect() call, blocks of every peak, no inbound audio.
NextCapture ==
  \/ Connect(1)
  \/ \E k \in First : ResumeInputDone(k)
  \/ \E k \in First : ResumeOutputDone(k)
  \/ \E k \in First : GetUserMediaDone(k)
  \/ Disconnect
  \/ \E k \in First : OnOpen(k)
  \/ \E k \in First : SessionResolve(k)
  \/ \E k \in First : OnAudioProcess(k, MaxQueued, Peaks)
  \/ \E k \in First : Send(k)
  \/ \E k \in First : OnClose(k)
  \/ \E k \in First : OnError(k)

SpecCapture == InitAny /\ [][NextCapture]_vars

\* The codec: every frame of Frames encoded, truncated or not, decoded, and
\* delivered to an open session as an inbound audio message.
InitCodec ==
  /\ credentials = "apiKey"
  /\ codec \in {[NoCodec EXCEPT !.st = "frame", !.frame = S, !.rounding = r] :
                  S \in Frames, r \in Roundings}
  /\ InitHook

NextCodec ==
  \/ Encode
  \/ Truncate
  \/ Decode
  \/ Connect(1)
  \/ \E k \in First : ResumeInputDone(k)
  \/ \E k \in First : ResumeOutputDone(k)
  \/ \E k \in First : GetUserMediaDone(k)
  \/ \E k \in First : OnOpen(k)
  \/ \E k \in First : OnMessageWire(k)
  \/ DecodeDone

SpecCodec == InitCodec /\ [][NextCodec]_vars

\* Interruptions: one connect() call that succeeds and is not torn down, the
\* clock moving before the first audio message only, so that no decode takes
\* any time on the output clock.
TickBeforeAudio == msgs = 0 /\ Tick

NextInterrupt ==
  \/ Connect(1)
  \/ \E k \in First : ResumeInputDone(k)
  \/ \E k \in First : ResumeOutputDone(k)
  \/ \E k \in First : GetUserMediaDone(k)
  \/ \E k \in First : OnOpen(k)
  \/ TickBeforeAudio
  \/ \E k \in First : OnMessage(k, MaxMsgs, Durations)
  \/ DecodeDone
  \/ \E u \in Msgs : OnEnded(u)

SpecInterrupt == Init /\ [][NextInterrupt]_vars

\* The App component over the hook: connect() and disconnect() are called by
\* its buttons only, and an event is handled once the effects have run.
NextApp ==
  \/ RunEffects
  \/ handleInitialize
  \/ KeyCheckDone
  \/ handlePermissionGranted
  \/ handleSelectKey
  \/ SelectKeyDone
  \/ Abort
  \/ handleShutdown
  \/ SystemRecovery
  \/ \E k \in Attempts : Settled /\ ResumeInputDone(k)
  \/ \E k \in Attempts : Settled /\ ResumeOutputDone(k)
  \/ \E k \in Attempts : Settled /\ GetUserMediaDone(k)
  \/ \E k \in Attempts : Settled /\ OnOpen(k)
  \/ \E k \in Attempts : Settled /\ OnClose(k)
  \/ \E k \in Attempts : Settled /\ OnError(k)

SpecApp == InitAny /\ [][NextApp]_vars
\* Quiet: one connect() call and inbound messages whose audio payload may be
\* malformed; every pending decode completes and every source that was
\* started or stopped reports its end.
InvalidChar == 65     \* a character outside the transport encoding's alphabet
Payloads == {<< 0, 0, 0, 0 >>, << 0, InvalidChar, 0, 0 >>}

\* decodeBase64 fails on a payload with a character outside the alphabet.
DecodeError(c) == \E i \in DOMAIN c : c[i] \notin 0..Pad

\* onmessage of session k for a message m = [audio, data, dur, interrupted]:
\* decodeBase64(m.data) is called after setIsSpeaking(true) and the raise of
\* the cursor, and its exception ends the handler.
onmessagePayload(s, k, m) ==
  IF m.audio /\ s.outputContextRef # Null /\ DecodeError(m.data)
  THEN [s EXCEPT !.isSpeaking = TRUE,
                 !.nextStartTimeRef = Max(s.nextStartTimeRef, s.clock),
                 !.msgs = @ + 1,
                 !.threw = TRUE]
  ELSE onmessage(s, k, [audio |-> m.audio, dur |-> m.dur,
                        interrupted |-> m.interrupted])

OnMessagePayload(k, maxMsgs, durs) ==
  /\ Drained
  /\ sess[k] = "open"
  /\ \E audio \in BOOLEAN, data \in Payloads, dur \in durs,
        interrupted \in BOOLEAN :
       /\ (audio => msgs < maxMsgs)
       /\ (~audio => (dur = 1 /\ ~DecodeError(data)))
       /\ Apply(onmessagePayload(State, k,
                [audio |-> audio, data |-> data, dur |-> dur,
                 interrupted |-> interrupted]))

NextQuiet ==
  \/ Connect(1)
  \/ \E k \in First : ResumeInputDone(k)
  \/ \E k \in First : ResumeOutputDone(k)
  \/ \E k \in First : GetUserMediaDone(k)
  \/ Disconnect
  \/ \E k \in First : OnOpen(k)
  \/ \E k \in First : OnMessagePayload(k, MaxMsgs, Durations)
  \/ DecodeDone
  \/ \E u \in Msgs : OnEnded(u)
  \/ \E k \in First : OnClose(k)
  \/ \E k \in First : OnError(k)
  \/ Tick

FairQuiet ==
  /\ WF_vars(DecodeDone)
  /\ \A u \in Msgs : WF_vars(OnEnded(u))

SpecQuiet == Init /\ [][NextQuiet]_vars /\ FairQuiet

\* Errors: several connect() calls, each made after the one before it has
\* returned, their failures, disconnect() and the session's open, close and
\* error events; no audio either way.
ConnectAgain ==
  /\ \A k \in Attempts : pc[k] \in {"idle", "returned"}
  /\ Connect(MaxAttempts)

NextErrors ==
  \/ ConnectAgain
  \/ \E k \in Attempts : ResumeInputDone(k)
  \/ \E k \in Attempts : ResumeOutputDone(k)
  \/ \E k \in Attempts : GetUserMediaDone(k)
  \/ Disconnect
  \/ \E k \in Attempts : OnOpen(k)
  \/ \E k \in Attempts : OnClose(k)
  \/ \E k \in Attempts : OnError(k)

SpecErrors == Init /\ [][NextErrors]_vars

\* -------------------------------------------------------- the App's log
\* Array.prototype.slice(start) for a negative start: the last -start
\* elements, or all of them when there are fewer.
slice(a, start) ==
  SubSeq(a, Max(Len(a) + start, 0) + 1, Len(a))

\* The updater with slice(-5).
addLogKeepFive(prev, msg) == slice(prev, 0 - 5) \o << "> " \o msg >>

\* The updater of addLog: prev => [...prev.slice(-4), `> ${msg}`].
addLog(prev, msg) == slice(prev, 0 - 4) \o << "> " \o msg >>

LogMessages ==
  {"Environment: Secure", "Initiating handshake...", "Handshake verified."}

AddLog ==
  /\ Len(added) < MaxLogs
  /\ \E msg \in LogMessages :
       /\ logs' = addLog(logs, msg)
       /\ added' = Append(added, msg)
  /\ UNCHANGED << app, codec, ambient, credentials, isConnected, isSpeaking,
                  error, inputContextRef, outputContextRef, streamRef, processorRef,
                  sourceRef, nextStartTimeRef, scheduledSourcesRef,
                  sessionPromiseRef, calls, pc, awaited, inCtx, outCtx, mic,
                  gain, sess, resolved, pendingSends, tap, clock, msgs,
                  decoding, node, last, torn, cutOff, cancelled >>

NextLog == AddLog

SpecLog == Init /\ [][NextLog]_vars

\* The ambient sound: enabled changes, and a fade-out timer fires any time
\* after it was set.
UnchangedButAmbient ==
  UNCHANGED << app, codec, logs, added, credentials, isConnected, isSpeaking,
               error, inputContextRef, outputContextRef, streamRef,
               processorRef, sourceRef, nextStartTimeRef, scheduledSourcesRef,
               sessionPromiseRef, calls, pc, awaited, inCtx, outCtx, mic, gain,
               sess, resolved, pendingSends, tap, clock, msgs, decoding, node,
               last, torn, cutOff, cancelled >>

\* A render with a new value of enabled: the cleanup of the last run of the
\* effect, then the effect.
SetEnabled ==
  /\ ambient.enabled \/ ambient.enables < MaxEnables
  /\ \E ok \in BOOLEAN :
       ambient' = ambientEffect(ambientCleanup(ambient), ~ambient.enabled, ok)
  /\ UnchangedButAmbient

AmbientTimeout ==
  /\ ambient.timers > 0
  /\ ambient' = ambientTimeout(ambient)
  /\ UnchangedButAmbient

NextAmbient == SetEnabled \/ AmbientTimeout

SpecAmbient == Init /\ [][NextAmbient]_vars

\* ================================================================ claims
Live(k) == sess[k] \in {"opening", "open"}

\* C1: sources started one after the other with no interruption and no teardown
\* between them do not overlap: each starts at or after the start of the one
\* before it plus that one's duration.
C1_NoOverlap ==
  [][(last.id # 0 /\ last'.id # 0 /\ last' # last)
       => last'.start >= last.start + last.dur]_vars

\* Two sources in flight, the later one started behind the earlier one.
C1_Witness ==
  /\ Cardinality(scheduledSourcesRef) >= 2
  /\ last.id # 0
  /\ last.start >= 1

\* C2: whenever the set of scheduled sources is not empty, isSpeaking is true.
C2_InFlightImpliesSpeaking == scheduledSourcesRef # {} => isSpeaking

\* C3: an interruption message handled with any number of sources in flight
\* leaves none in flight, each of them stopped, isSpeaking false and the cursor
\* at 0, and handling it again changes nothing and throws nothing.
Interruption == [audio |-> FALSE, dur |-> 1, interrupted |-> TRUE]

C3_FlushClearsAll ==
  \A k \in Attempts :
    LET t == onmessage(State, k, Interruption)
    IN /\ t.scheduledSourcesRef = {}
       /\ \A u \in scheduledSourcesRef : t.node[u] = "stopped"
       /\ ~t.isSpeaking
       /\ t.nextStartTimeRef = 0
       /\ ~t.threw
       /\ onmessage(t, k, Interruption) = t

\* An interruption has stopped two sources that were in flight.
C3_Witness ==
  /\ Cardinality({u \in Msgs : node[u] = "stopped"}) >= 2
  /\ scheduledSourcesRef = {}
  /\ nextStartTimeRef = 0
  /\ ~isSpeaking
  /\ isConnected

\* C4: isSpeaking is never true while isConnected is false.
C4_SpeakingImpliesConnected == isSpeaking => isConnected

\* C5: at most one session is opening or open at any time.
C5_OneLiveSession == Cardinality({k \in Attempts : Live(k)}) <= 1

\* C6: a connect() that was suspended when disconnect() was called ends with no
\* error set, no microphone stream, no audio context, no session and
\* isConnected false.
C6_CancelledConnectLeavesNothing ==
  \A k \in cancelled :
    pc[k] = "returned" =>
      /\ error = NoError
      /\ mic[k] # "live"
      /\ inCtx[k] # "running"
      /\ outCtx[k] # "running"
      /\ sess[k] = "none"
      /\ ~isConnected

\* C7: after disconnect(), until the next connect(), a callback of a session
\* that was opening or open at the disconnect() leaves isConnected false,
\* isSpeaking false and no capture tap.
LateCallback(k) ==
  \/ OnOpen(k)
  \/ OnMessage(k, MaxMsgs, Durations)
  \/ OnAudioProcess(k, MaxPending, LivePeaks)
  \/ \E d \in decoding : d.sess = k /\ Apply(onmessageAfterDecode(State, d))

C7_NoLateCallback ==
  [][\A k \in cutOff :
       LateCallback(k) => (~isConnected' /\ ~isSpeaking' /\ processorRef' = Null)]_vars

\* C8: right after disconnect() from an open session, the capture tap and the
\* microphone are released, both contexts are closed, nothing is in flight
\* and the session is closed.
C8_DisconnectClosesSession ==
  \A k \in Attempts :
    sess[k] = "open" =>
      LET t == disconnect(State)
      IN /\ t.processorRef = Null
         /\ t.streamRef = Null
         /\ t.inputContextRef = Null
         /\ t.outputContextRef = Null
         /\ t.scheduledSourcesRef = {}
         /\ t.sess[k] \notin {"opening", "open"}

\* C9: disconnect() twice is disconnect() once, it never throws, and in the
\* initial state it changes nothing.
C9_DisconnectIdempotent ==
  LET t == disconnect(State)
  IN /\ ~t.threw
     /\ disconnect(t) = t
     /\ disconnect(InitState) = InitState

\* disconnect() has run twice over a session that was open and playing.
C9_Witness ==
  /\ \E k \in Attempts : sess[k] = "open" /\ k \in cutOff /\ tap[k].st = "disconnected"
  /\ \E u \in Msgs : node[u] = "stopped"
  /\ State = disconnect(State)

\* C10: a capture block is handed to session.sendRealtimeInput only while the
\* session is open and no teardown has run since its connect().
C10_SendOnlyWhileOpen ==
  [][\A k \in Attempts : Send(k) => (sess[k] = "open" /\ k \notin torn)]_vars
\* C11: a playback source is started and added to the in-flight set only
\* while its session is open and no teardown (disconnect(), onclose, onerror)
\* has run over it, even when its decode completes after the teardown.
C11_NoSchedulingAfterTeardown ==
  [][\A d \in decoding :
       (Apply(onmessageAfterDecode(State, d)) /\ node'[d.id] # "none")
         => (sess[d.sess] = "open" /\ d.sess \notin torn)]_vars

\* C12: a capture block registers a send that carries it if and only if its
\* peak is above the gate, and nothing else changes: a block of peak 2 or of
\* peak 5 (the gate itself) registers none, a block of peak 10 exactly one;
\* and a send that runs delivers one registered block and leaves the rest.
C12_GateIsStrict ==
  \A k \in Attempts :
    /\ \A peak \in Peaks :
         onaudioprocess(State, k, peak) =
           IF peak > NoiseGate
           THEN [State EXCEPT !.pendingSends[k] = pendingSends[k] \o << peak >>]
           ELSE State
    /\ onaudioprocess(State, k, 2) = State
    /\ onaudioprocess(State, k, NoiseGate) = State
    /\ Len(onaudioprocess(State, k, 10).pendingSends[k]) = Len(pendingSends[k]) + 1
    /\ pendingSends[k] # << >> =>
         Len(sendRealtimeInput(State, k).pendingSends[k]) = Len(pendingSends[k]) - 1

\* A block of peak 10 is waiting on the promise of an open session.
C12_Witness ==
  \E k \in Attempts :
    /\ tap[k].st = "active"
    /\ sess[k] = "open"
    /\ \E i \in DOMAIN pendingSends[k] : pendingSends[k][i] = 10

\* What a connect() call may change when it returns before acquiring anything:
\* the error and the bookkeeping of the call itself.
SameButError(t, k) ==
  t = [State EXCEPT !.error = t.error, !.calls = k, !.pc[k] = "returned",
                    !.cutOff = {}, !.cancelled = {}]

\* C13: connect() with neither an API key nor window.aistudio sets error to
\* ERR_AUTH_MISSING and returns: no audio context, no microphone and no
\* session is made, isConnected and isSpeaking stay as they were; on a page
\* without credentials nothing is ever acquired.
C13_AuthMissing ==
  /\ calls < MaxAttempts =>
       \A audioOk \in BOOLEAN :
         LET t == connectStart(State, calls + 1, FALSE, FALSE, audioOk)
         IN t.error = "ERR_AUTH_MISSING" /\ SameButError(t, calls + 1)
  /\ credentials = "none" =>
       /\ error = (IF calls > 0 THEN "ERR_AUTH_MISSING" ELSE NoError)
       /\ ~isConnected /\ ~isSpeaking
       /\ \A k \in Attempts :
            /\ inCtx[k] = "none" /\ outCtx[k] = "none"
            /\ mic[k] = "none" /\ sess[k] = "none"
            /\ pc[k] \in {"idle", "returned"}

\* connect() has returned on a page without credentials.
C13_Witness ==
  credentials = "none" /\ calls > 0 /\ pc[calls] = "returned"
    /\ error = "ERR_AUTH_MISSING"

\* t is s after a full teardown: both flags false, nothing in flight, every
\* ref null, and what the refs of s pointed to released.
TornDown(s, t) ==
  /\ ~t.isConnected /\ ~t.isSpeaking
  /\ t.scheduledSourcesRef = {}
  /\ \A u \in s.scheduledSourcesRef : t.node[u] # "started"
  /\ t.processorRef = Null /\ t.sourceRef = Null /\ t.streamRef = Null
  /\ t.inputContextRef = Null /\ t.outputContextRef = Null
  /\ s.processorRef # Null => t.tap[s.processorRef].st = "disconnected"
  /\ s.streamRef # Null => t.mic[s.streamRef] = "stopped"
  /\ s.inputContextRef # Null => t.inCtx[s.inputContextRef] = "closed"
  /\ s.outputContextRef # Null => t.outCtx[s.outputContextRef] = "closed"

SessionErrorCodes ==
  << "ERR_NETWORK_OR_AUTH", "ERR_NOT_FOUND", "ERR_QUOTA_EXCEEDED",
     "ERR_SAFETY_FILTER" >>

\* The code of the first class, in the order of SessionErrorCodes, that the
\* text belongs to; ERR_SESSION_DROP when it belongs to none.
FirstMatch(m) ==
  LET hit == << Includes(m, "Network error") \/ Includes(m, "401")
                  \/ Includes(m, "403"),
                LowerIncludes(m, "requested entity was not found"),
                LowerIncludes(m, "quota"),
                LowerIncludes(m, "safety") >>
      hits == {i \in 1..4 : hit[i]}
  IN IF hits = {} THEN "ERR_SESSION_DROP"
     ELSE SessionErrorCodes[CHOOSE i \in hits : \A j \in hits : i <= j]

\* C14: onerror of a live session sets error to exactly one code, the first
\* match of network/401/403, not-found, quota, safety in that order and
\* ERR_SESSION_DROP when none matches (an empty or missing message
\* included), and tears everything down.
C14_OnErrorClassifies ==
  \A k \in Attempts :
    Live(k) =>
      \A err \in ErrorValues :
        LET t == onerror(State, k, err)
        IN /\ t.error = FirstMatch(rawMessage(err))
           /\ (err.message = "" /\ err.text \in {"", "undefined", "[object Event]"})
                => t.error = "ERR_SESSION_DROP"
           /\ t.sess[k] = "errored"
           /\ TornDown(State, t)

\* onerror has classified a quota failure of a session that was open.
C14_Witness ==
  \E k \in Attempts :
    sess[k] = "errored" /\ tap[k].st = "disconnected"
      /\ error = "ERR_QUOTA_EXCEEDED" /\ ~isConnected

\* C15: onclose of an open session leaves error = ERR_SESSION_DROP and
\* everything torn down.
C15_OnCloseReportsDrop ==
  [][\A k \in Attempts :
       (sess[k] = "open" /\ OnClose(k))
         => (error' = "ERR_SESSION_DROP" /\ ~isConnected' /\ ~isSpeaking'
              /\ scheduledSourcesRef' = {} /\ processorRef' = Null)]_vars

\* C16: whenever error is set, the session is torn down: isConnected and
\* isSpeaking are false, nothing is in flight and no capture tap is active.
C16_ErrorImpliesTornDown ==
  error # NoError =>
    /\ ~isConnected /\ ~isSpeaking
    /\ scheduledSourcesRef = {}
    /\ processorRef = Null
    /\ \A k \in Attempts : tap[k].st # "active"

\* C17: no more sessions are opened than connect() calls were made, and once
\* the session of the latest connect() call has errored or closed, the hook
\* is disconnected and no session is being opened.
C17_NoReconnect ==
  /\ Cardinality({k \in Attempts : sess[k] # "none"}) <= calls
  /\ (calls > 0 /\ sess[calls] \in {"errored", "closed"}) =>
       (~isConnected /\ \A j \in Attempts : sess[j] # "opening")

DeviceErrorCodes == {"ERR_HARDWARE_ACCESS", "ERR_MIC_DENIED", "ERR_HARDWARE_FAIL"}

\* C18: a connect() call that fails to acquire a device reports a device
\* error, whatever the text of the exception: when there is no AudioContext
\* constructor, and when getUserMedia rejects.
C18_DeviceFailureIsDeviceError ==
  [][\A k \in Attempts :
       /\ (credentials # "none" /\ pc[k] = "idle" /\ pc'[k] = "returned")
            => error' \in DeviceErrorCodes
       /\ (GetUserMediaDone(k) /\ sess'[k] = "none")
            => error' \in DeviceErrorCodes]_vars

\* C19: of two sources started with no interruption and no teardown between
\* them, the one of the later message is the one started later: playback
\* follows the order the messages arrived in, whichever decode ends first.
C19_PlaybackInArrivalOrder ==
  [][(last.id # 0 /\ last'.id # 0 /\ last' # last) => last'.id > last.id]_vars

\* C20: the sends of a session leave in capture order: a block is registered
\* behind the blocks captured before it, and the block a send delivers is
\* the one captured earliest among those waiting.
C20_SendsInCaptureOrder ==
  [][\A k \in Attempts :
       /\ OnAudioProcess(k, MaxQueued, Peaks) =>
            \/ pendingSends'[k] = pendingSends[k]
            \/ \E b \in Peaks : pendingSends'[k] = pendingSends[k] \o << b >>
       /\ Send(k) => pendingSends'[k] = Tail(pendingSends[k])]_vars

\* Two different blocks wait, the earlier first, on a promise that has resolved.
C20_Witness ==
  \E k \in Attempts : resolved[k] /\ pendingSends[k] = << 10, 20 >>

\* C21: at any time at most one microphone stream is unreleased, at most one
\* input context is open and at most one output context is open.
C21_DevicesExclusivelyOwned ==
  /\ Cardinality({k \in Attempts : mic[k] = "live"}) <= 1
  /\ Cardinality({k \in Attempts : inCtx[k] = "running"}) <= 1
  /\ Cardinality({k \in Attempts : outCtx[k] = "running"}) <= 1

\* C24: when a source is started after another one with no interruption and
\* no teardown between them and the clock has not passed the end of the
\* first, the second starts exactly where the first ends and the cursor is
\* left at the end of the second.
C24_BackToBack ==
  [][(last.id # 0 /\ last'.id # 0 /\ last' # last
        /\ clock <= last.start + last.dur)
       => /\ last'.start = last.start + last.dur
          /\ nextStartTimeRef' = last.start + last.dur + last'.dur]_vars

\* A source of duration 1 was started at 2, where one of duration 2 started
\* at 0 ends, after the clock had moved.
C24_Witness ==
  /\ last.id = 2 /\ last.start = 2 /\ last.dur = 1
  /\ nextStartTimeRef = 3
  /\ clock = 1
  /\ scheduledSourcesRef = {1, 2}

\* C25: a source is started at the later of the cursor and the clock as they
\* are when it is started, so never before the clock, and the cursor is left
\* at its end.
C25_StartNotBeforeClock ==
  [][(last'.id # 0 /\ last' # last)
       => /\ last'.start = Max(nextStartTimeRef, clock)
          /\ last'.start >= clock
          /\ nextStartTimeRef' = last'.start + last'.dur]_vars

\* C26: the first source started after an interruption is started at the
\* clock's present time, also when the interruption came while its message
\* was being decoded.  (Under SpecInterrupt no source was started since the
\* start or since the last interruption exactly when last = NoUnit, and the
\* clock stands still from the arrival of a message.)
C26_RestartAtClockAfterFlush ==
  [][\A d \in decoding :
       (/\ Apply(onmessageAfterDecode(State, d))
        /\ last = NoUnit /\ last'.id = d.id)
         => last'.start = clock]_vars

\* C27: disconnect(), onclose and onerror leave nothing in flight, isSpeaking
\* false and the cursor at 0.
C27_TeardownResetsCursor ==
  [][(Disconnect \/ \E k \in Attempts : OnClose(k) \/ OnError(k))
       => (scheduledSourcesRef' = {} /\ ~isSpeaking' /\ nextStartTimeRef' = 0)]_vars

\* C28: when the source of a message ends it leaves the in-flight set;
\* isSpeaking becomes false if the set is then empty and is left as it was
\* otherwise; the end of a source that a flush had already removed removes
\* nothing and never makes isSpeaking true.
C28_OnEndedRemovesUnit ==
  \A u \in Msgs :
    node[u] \in {"started", "stopped"} =>
      LET t == onended(State, u)
      IN /\ t.scheduledSourcesRef = scheduledSourcesRef \ {u}
         /\ t.isSpeaking = (IF t.scheduledSourcesRef = {} THEN FALSE ELSE isSpeaking)
         /\ u \notin scheduledSourcesRef =>
              (t.scheduledSourcesRef = scheduledSourcesRef
                 /\ (t.isSpeaking => isSpeaking))
         /\ t = [State EXCEPT !.node[u] = "ended",
                              !.scheduledSourcesRef = t.scheduledSourcesRef,
                              !.isSpeaking = t.isSpeaking]

\* The first source has ended while the second is in flight and heard.
C28_Witness ==
  node[1] = "ended" /\ scheduledSourcesRef = {2} /\ isSpeaking

\* C29: only an interruption lowers the cursor: every other step leaves it
\* where it was or further on.
C29_CursorMonotone ==
  [][nextStartTimeRef' < nextStartTimeRef =>
       \/ \E k \in Attempts : Apply(onmessage(State, k, Interruption))
       \/ \E d \in decoding :
            d.interrupted /\ Apply(onmessageAfterDecode(State, d))]_vars

\* The cursor stands beyond the clock, at the end of the last source started.
C29_Witness ==
  /\ last.id # 0
  /\ nextStartTimeRef = last.start + last.dur
  /\ nextStartTimeRef > clock
  /\ clock > 0

\* C23: once the effects have run, the display state is ERROR when error is
\* set; otherwise LISTENING when isConnected; otherwise IDLE or
\* REQUESTING_PERMISSION, as last chosen by the user.
C23_DisplayStateFollowsHook ==
  Settled =>
    /\ error # NoError => app.appState = "ERROR"
    /\ (error = NoError /\ isConnected) => app.appState = "LISTENING"
    /\ (error = NoError /\ ~isConnected) =>
         app.appState \in {"IDLE", "REQUESTING_PERMISSION"}

Abs(x) == IF x < 0 THEN 0 - x ELSE x

\* C22: a frame of samples in [-1, 1] that was encoded and decoded comes back
\* with the same length and every sample within one quantization step of the
\* original; 1.0 comes back as 32767/32768 and -1.0 as -1.0, not wrapped.
C22_RoundTrip ==
  (codec.st = "decoded" /\ ~codec.truncated) =>
    /\ Len(codec.out) = Len(codec.frame)
    /\ \A i \in DOMAIN codec.frame :
         /\ Abs(codec.out[i] - codec.frame[i]) <= 2
         /\ codec.frame[i] = Unit => codec.out[i] = 2 * Int16Max
         /\ codec.frame[i] = 0 - Unit => codec.out[i] = 2 * Int16Min

\* The frame << 1.0, -1.0 >> has been encoded and decoded.
C22_Witness ==
  /\ codec.st = "decoded" /\ ~codec.truncated
  /\ codec.frame = << Unit, 0 - Unit >>
  /\ codec.out = << 2 * Int16Max, 2 * Int16Min >>

\* C30: a payload of 2k+1 bytes decodes, without failing, to the k samples of
\* its first 2k bytes, and the source of the message that carries it is
\* started with a buffer of k samples.
C30_TruncatedPayloadDecodes ==
  codec.truncated =>
    LET b == decodeBase64(codec.wire)
        k == Len(codec.frame) - 1
    IN /\ Len(b) = 2 * k + 1
       /\ Len(decodeAudioData(b)) = k
       /\ decodeAudioData(b) = decodeAudioData(SubSeq(b, 1, 2 * k))
       /\ codec.st = "decoded" => codec.out = decodeAudioData(SubSeq(b, 1, 2 * k))
       /\ (msgs = 1 /\ decoding = {}) =>
            (node[1] = "started" /\ last = [id |-> 1, start |-> 0, dur |-> k])

\* The source of a message whose payload of three bytes held one whole
\* sample has been started.
C30_Witness ==
  /\ codec.truncated /\ Len(codec.frame) = 2
  /\ Len(decodeBase64(codec.wire)) = 3
  /\ node[1] = "started" /\ last.dur = 1

\* C31: every audio message that was handled is eventually followed by a
\* state in which isSpeaking is false, also when its payload failed to decode
\* and when its source was flushed or torn down, provided that every pending
\* decode completes and every source reports its end.
C31_SpeakingEventuallyFalse ==
  \A n \in Msgs : (msgs = n) ~> ~isSpeaking

\* What is left when nothing is playing.
NothingPlaying(t) ==
  t.scheduledSourcesRef = {} /\ ~t.isSpeaking /\ t.nextStartTimeRef = 0

\* C32: a message that carries both audio and the interrupted flag leaves
\* nothing playing once its handler has completed: the source made for its
\* audio has been stopped, and so has every source that was in flight, the
\* in-flight set is empty, isSpeaking is false and the cursor is 0; when
\* there is no output context no source is made and the same is left.
C32_AudioAndInterrupted ==
  /\ \A d \in decoding :
       d.interrupted =>
         LET t == onmessageAfterDecode(State, d)
         IN ~t.threw =>
              /\ t.node[d.id] = "stopped"
              /\ \A u \in scheduledSourcesRef : t.node[u] = "stopped"
              /\ NothingPlaying(t)
              /\ d \notin t.decoding
  /\ outputContextRef = Null =>
       \A k \in Attempts, dur \in Durations :
         LET t == onmessage(State, k, [audio |-> TRUE, dur |-> dur,
                                       interrupted |-> TRUE])
         IN NothingPlaying(t) /\ t.msgs = msgs /\ t.decoding = decoding

\* A message with audio and the interrupted flag is being decoded while an
\* earlier source is in flight and heard.
C32_Witness ==
  /\ \E d \in decoding : d.interrupted /\ d.id = 2
  /\ scheduledSourcesRef = {1} /\ node[1] = "started"
  /\ isSpeaking /\ nextStartTimeRef > 0

\* C33: the capture tap exists only inside an open session: whenever
\* processorRef is set, isConnected is true and the microphone stream and the
\* input context are held; onopen makes a tap only if both are held; and at
\* most one capture tap is active at a time.
C33_TapOnlyInsideSession ==
  /\ processorRef # Null =>
       (isConnected /\ streamRef # Null /\ inputContextRef # Null)
  /\ \A k \in Attempts :
       (inputContextRef = Null \/ streamRef = Null) =>
         onopen(State, k).tap = tap
  /\ Cardinality({k \in Attempts : tap[k].st = "active"}) <= 1

\* Every value the error field takes.
ErrorStates ==
  { NoError, "ERR_AUTH_MISSING", "ERR_HARDWARE_ACCESS", "ERR_NETWORK_OR_AUTH",
    "ERR_NOT_FOUND", "ERR_QUOTA_EXCEEDED", "ERR_SAFETY_FILTER",
    "ERR_SESSION_DROP" }

\* C34: disconnect() leaves the error field as it was; what connect() leaves
\* does not depend on the error it was called with (it resets the error
\* before anything else); and a step that takes the error from set to null
\* is a connect() call.
C34_ErrorClearedOnlyByConnect ==
  /\ [](/\ error \in ErrorStates
        /\ disconnect(State).error = error
        /\ calls < MaxAttempts =>
             \A e \in ErrorStates, audioOk \in BOOLEAN :
               connectStart([State EXCEPT !.error = e], calls + 1,
                            credentials = "apiKey", credentials = "aistudio",
                            audioOk)
                 = connectStart([State EXCEPT !.error = NoError], calls + 1,
                                credentials = "apiKey",
                                credentials = "aistudio", audioOk))
  /\ [][/\ Disconnect => error' = error
        /\ (error # NoError /\ error' = NoError) => calls' = calls + 1]_vars

\* The error that the first session's onerror had set has been cleared by a
\* second connect(), which is still under way.
C34_Witness ==
  /\ calls = 2 /\ sess[1] = "errored" /\ 1 \in torn
  /\ pc[2] \in Suspended
  /\ error = NoError

\* C35: the log holds at most 5 lines, and they are the messages of the
\* latest addLog calls, in the order of the calls, each behind "> ".
C35_LogIsRollingWindow ==
  LET n == IF Len(added) < 5 THEN Len(added) ELSE 5
  IN /\ Len(logs) = n
     /\ Len(logs) <= 5
     /\ \A i \in 1..n : logs[i] = "> " \o added[Len(added) - n + i]

\* Seven messages were added and the log shows the last five of them.
C35_Witness ==
  /\ Len(added) = 7 /\ Len(logs) = 5
  /\ added[2] # added[3]
  /\ logs[1] = "> " \o added[3] /\ logs[5] = "> " \o added[7]

\* C36: while enabled is true and the audio system could be set up, the
\* hook's context is open and its oscillators are running, whatever timers
\* of earlier fade-outs have fired since.
C36_AmbientRunsWhileEnabled ==
  (ambient.enabled /\ ~ambient.failed) =>
    /\ ambient.ctx[ambient.enables] = "running"
    /\ ambient.osc[ambient.enables] = "running"
    /\ ambient.contextRef = ambient.enables
    /\ ambient.oscillatorsRef = ambient.enables

=============================================================================
